---- MODULE Spec2Model ----
(***************************************************************************)
(* Processing-job orchestrator, vector-index (re)indexing and text chunker *)
(* of the research-paper ingestion services.                               *)
(*                                                                         *)
(*   Spec       document-processing: jobs_crud.py, tasks.py, crud.py and   *)
(*              the job endpoints of api/v1/endpoints.py                   *)
(*   SpecBatch  document-processing: process_batch_task and the workers    *)
(*   SpecReprocess  document-processing: POST /documents/{id}/reprocess    *)
(*              and the workers                                            *)
(*   SpecIndex  vector-db: POST /process-document, crud.py                 *)
(*   SpecChunk  vector-db: TextChunker.chunk_text, one loop iteration per  *)
(*              step, over all short texts and small configurations        *)
(***************************************************************************)
EXTENDS Integers, Sequences, FiniteSets, TLC

(* ---------------------------- bounds ----------------------------------- *)
\* number of ProcessingJob rows that can be created
MaxJobs == 3
\* number of files sent to POST /upload-async
MaxUploads == 1
\* number of times a worker process may be lost while running a task
MaxLost == 1
\* number of files in the submitted batch
BatchSize == 2
\* number of worker processes consuming the document_processing queue
NumWorkers == 1
\* number of cancel requests sent by clients
MaxCancels == 1
\* number of documents sent to the vector-db service
MaxDocs == 2
\* rows of document_chunks a search runs over
MaxChunks == 2
\* search requests served
MaxSearches == 2
\* lines of a text given to TextProcessor
MaxLines == 4
\* lines of the title and author block, and of the paragraph after it, in
\* the texts without an Abstract header
MaxPreamble == 12
MaxParagraph == 6
\* characters on a page given to _extract_text_from_page
MaxChars == 3
\* number of process-document requests the vector-db service serves at once
MaxRequests == 2
\* longest text handed to chunk_text
MaxTextLen == 5
\* largest chunk_size / chunk_overlap a TextChunker is constructed with
MaxChunkSize == 3
MaxChunkOverlap == 3
\* settings.chunk_size and settings.chunk_overlap (500 and 50 characters),
\* scaled down to the length of the texts
SettingsChunkSize == 4
SettingsChunkOverlap == 1

(* ------------------------ program constants ---------------------------- *)
\* @celery_app.task(..., max_retries=3)
max_retries == 3
\* countdown=60 * (2 ** self.request.retries)
RetryBase == 60

JobIds == 1 .. MaxJobs
DocIds == 1 .. MaxDocs

\* the batch_id of the one submitted batch; 0 stands for a null batch_id
TheBatch == 1

\* the value None of an optional integer argument
None == -1

Terminal == {"completed", "failed", "cancelled"}

\* progress written by the successive update_job_status calls of one run
Progress == <<0, 10, 15, 25, 35, 50, 60, 70, 80, 90>>

VARIABLES
    jobs,       \* processing_jobs table: job_id -> row
    nextJob,    \* number of job ids handed out so far, plus one
    task,       \* the process_document_task message of each job and its run
    documents,  \* documents table: set of rows
    nextDoc,    \* next value of the documents.id sequence
    nextFile,   \* next fresh stored file name
    batch,      \* the process_batch_task message and its run
    cancel,     \* the request being served by POST /jobs/{job_id}/cancel
    lost,       \* number of worker losses so far
    index,      \* vector-db document_chunks table: set of rows
    req,        \* vector-db process-document requests being served
    ck,         \* one call of TextChunker.chunk_text: its locals
    up,         \* upload requests served so far and the last response
    run,        \* one job's process_document_task seen stage by stage:
                \* its locals, its job row, its step log, its Document
    rm,         \* a document stored by POST /upload, its background
                \* indexing task and the DELETE /documents/{id} request
    sr,         \* one call of search_similar_chunks: table, request, rows
    tp,         \* one TextProcessor: its lines and the sections it returned
    gw,         \* one call of the gateway's ServiceClient.delete_document
    pg          \* one call of PDFParser._extract_text_from_page

orch == <<jobs, nextJob, task, documents, nextDoc, nextFile, batch, cancel, lost,
          up>>

more == <<tp, gw, pg>>

aux == <<run, rm, sr, more>>

vars == <<jobs, nextJob, task, documents, nextDoc, nextFile, batch, cancel, lost,
          index, req, ck, up, run, rm, sr, tp, gw, pg>>

(* ------------------------------ rows ----------------------------------- *)
NoJob ==
    [exists |-> FALSE, status |-> "none", progress |-> 0,
     error_message |-> FALSE, document_id |-> 0, started_at |-> FALSE,
     completed_at |-> 0, batch_id |-> 0]

NoTask ==
    [st |-> "none", retries |-> 0, countdown |-> 0, pc |-> 0, file |-> 0,
     doc |-> 0]

NoDocument ==
    [id |-> 0, full_text |-> "unset", doi |-> 0, ocr_applied |-> FALSE,
     tables_data |-> 0, tables_extracted |-> FALSE, processing_job_id |-> 0]

\* the locals of one execution of the task body
NoLocals ==
    [full_text |-> "unset", ocr_applied |-> FALSE, dois |-> <<>>, doi |-> 0,
     tables |-> 0, figures |-> 0, references |-> 0, caught |-> "none"]

NoRun ==
    [st |-> "none", pc |-> "none", retries |-> 0, countdown |-> 0,
     job |-> NoJob, steps |-> <<>>, now |-> 1, loc |-> NoLocals,
     document |-> NoDocument]

\* an uploaded file: whether its name ends in .pdf and whether its size
\* exceeds settings.max_file_size
Files == [pdf : BOOLEAN, oversize : BOOLEAN]

NoFile == [pdf |-> FALSE, oversize |-> FALSE]

(* --------------------------- JobsCRUD ---------------------------------- *)
\* a job row as create_job inserts it
NewJob(batch_id) ==
    [exists |-> TRUE, status |-> "pending", progress |-> 0,
     error_message |-> FALSE, document_id |-> 0, started_at |-> FALSE,
     completed_at |-> 0, batch_id |-> batch_id]

create_job(js, j, batch_id) == [js EXCEPT ![j] = NewJob(batch_id)]

\* datetime.utcnow() written over a stored timestamp: 0 is null, and a write
\* stores a value that differs from the one it replaces
utcnow(old) == IF old = 1 THEN 2 ELSE 1

update_job_status(js, j, status, progress, error_message, document_id) ==
    IF ~js[j].exists THEN js
    ELSE LET old == js[j] IN
         [js EXCEPT ![j] =
            [exists |-> TRUE,
             status |-> status,
             progress |-> IF progress # None THEN progress ELSE old.progress,
             error_message |-> IF error_message THEN TRUE
                               ELSE old.error_message,
             document_id |-> IF document_id # 0 THEN document_id
                             ELSE old.document_id,
             started_at |-> IF status = "processing" /\ ~old.started_at
                            THEN TRUE ELSE old.started_at,
             completed_at |-> IF ~(status = "processing" /\ ~old.started_at)
                                 /\ status \in Terminal
                              THEN utcnow(old.completed_at)
                              ELSE old.completed_at,
             batch_id |-> old.batch_id]]

\* the return value of JobsCRUD.cancel_job
cancel_job_ret(js, j) == js[j].exists /\ js[j].status \notin Terminal

\* cancel_job without its check of the terminal statuses
cancel_job_unguarded(js, j) ==
    IF ~js[j].exists THEN js
    ELSE [js EXCEPT ![j].status = "cancelled",
                    ![j].completed_at = utcnow(@)]

\* the table after JobsCRUD.cancel_job
cancel_job(js, j) ==
    IF ~js[j].exists \/ js[j].status \in Terminal THEN js
    ELSE [js EXCEPT ![j].status = "cancelled",
                    ![j].completed_at = utcnow(@)]

get_batch_jobs(js, b) == {j \in JobIds : js[j].exists /\ js[j].batch_id = b}

\* by_status[s] of get_batch_summary
by_status(js, b, s) == Cardinality({j \in get_batch_jobs(js, b) : js[j].status = s})

total_jobs(js, b) == Cardinality(get_batch_jobs(js, b))

(* ----------------------------- crud ------------------------------------ *)
\* Document.filename is unique: the insert raises IntegrityError when a row
\* with that filename is already stored
create_document_raises(docs, f) == \E d \in docs : d.filename = f

create_document(docs, id, f, j) ==
    docs \cup {[id |-> id, filename |-> f, processing_job_id |-> j]}

(* --------------------------- TextChunker ------------------------------- *)
\* a text is a sequence of characters; positions are counted from 0 as in
\* the source, so the character at position i is text[i + 1]
Chars == {"a", " ", ".", "!", "?", "\n"}

Whitespace == {" ", "\n"}

Texts == UNION {[1 .. n -> Chars] : n \in 0 .. MaxTextLen}

SetMax(S) == CHOOSE x \in S : \A y \in S : y <= x

SetMin(S) == CHOOSE x \in S : \A y \in S : x <= y

\* text[a:b]
Slice(text, a, b) ==
    LET hi == IF b < Len(text) THEN b ELSE Len(text)
    IN  IF a >= hi THEN <<>> ELSE SubSeq(text, a + 1, hi)

\* text.strip()
strip(text) ==
    LET keep == {i \in 1 .. Len(text) : text[i] \notin Whitespace}
    IN  IF keep = {} THEN <<>>
        ELSE SubSeq(text, SetMin(keep), SetMax(keep))

\* text.rfind(sub, start, end): highest position in [start, end - len(sub)]
\* at which sub occurs, -1 when there is none
rfind(text, sub, start, end) ==
    LET hi == IF end < Len(text) THEN end ELSE Len(text)
        at == {i \in start .. (hi - Len(sub)) :
                  \A k \in 1 .. Len(sub) : text[i + k] = sub[k]}
    IN  IF at = {} THEN -1 ELSE SetMax(at)

\* for delimiter in ['. ', '! ', '? ', '\n\n', '\n']
Delimiters == << <<".", " ">>, <<"!", " ">>, <<"?", " ">>, <<"\n", "\n">>, <<"\n">> >>

\* the end of the window that begins at start: start + chunk_size, moved back
\* to the first delimiter (in list order) that occurs after start, else to
\* the last space
WindowEnd(text, start, chunk_size) ==
    LET end == start + chunk_size
        found == {d \in 1 .. Len(Delimiters) :
                     rfind(text, Delimiters[d], start, end) > start}
        last_space == rfind(text, <<" ">>, start, end)
    IN  IF end >= Len(text) THEN end
        ELSE IF found # {}
        THEN LET d == SetMin(found)
             IN  rfind(text, Delimiters[d], start, end) + Len(Delimiters[d])
        ELSE IF last_space > start THEN last_space
        ELSE end

\* start = end - chunk_overlap if end < len(text) else end;
\* if start <= 0: start = end
NextStart(text, end, chunk_overlap) ==
    LET s == IF end < Len(text) THEN end - chunk_overlap ELSE end
    IN  IF s <= 0 THEN end ELSE s

\* chunks after one iteration of the loop
AppendChunk(chunks, text, start, end, section) ==
    LET chunk_text == strip(Slice(text, start, end))
    IN  IF chunk_text # <<>>
        THEN Append(chunks, [chunk_index |-> Len(chunks), text |-> chunk_text,
                             section |-> section])
        ELSE chunks

\* an iteration that does not move the window start forward is repeated for
\* ever; no run whose start advances takes more than len(text) iterations
MaxIter(text) == Len(text) + 1

RECURSIVE chunk_loop(_, _, _, _, _, _, _)
\* the while loop of chunk_text: ret is FALSE when the loop does not return
chunk_loop(text, section, chunk_size, chunk_overlap, start, chunks, iter) ==
    IF start >= Len(text) THEN [ret |-> TRUE, chunks |-> chunks]
    ELSE IF iter >= MaxIter(text) THEN [ret |-> FALSE, chunks |-> <<>>]
    ELSE LET end == WindowEnd(text, start, chunk_size)
         IN  chunk_loop(text, section, chunk_size, chunk_overlap,
                        NextStart(text, end, chunk_overlap),
                        AppendChunk(chunks, text, start, end, section),
                        iter + 1)

chunk_text(text, section, chunk_size, chunk_overlap) ==
    IF strip(text) = <<>> THEN [ret |-> TRUE, chunks |-> <<>>]
    ELSE chunk_loop(text, section, chunk_size, chunk_overlap, 0, <<>>, 0)

\* chunk['chunk_index'] = global_chunk_index for the chunks of one section
Renumber(chunks, from) ==
    [i \in 1 .. Len(chunks) |-> [chunks[i] EXCEPT !.chunk_index = from + i - 1]]

RECURSIVE chunk_sections(_, _, _, _)
\* sections is the dictionary in iteration order: a sequence of name, text
chunk_sections(sections, chunk_size, chunk_overlap, all_chunks) ==
    IF sections = <<>> THEN [ret |-> TRUE, chunks |-> all_chunks]
    ELSE LET s == Head(sections)
             r == chunk_text(s.text, s.name, chunk_size, chunk_overlap)
         IN  IF strip(s.text) = <<>>
             THEN chunk_sections(Tail(sections), chunk_size, chunk_overlap,
                                 all_chunks)
             ELSE IF ~r.ret THEN [ret |-> FALSE, chunks |-> <<>>]
             ELSE chunk_sections(Tail(sections), chunk_size, chunk_overlap,
                                 all_chunks \o Renumber(r.chunks, Len(all_chunks)))

chunk_with_metadata(full_text, sections, chunk_size, chunk_overlap) ==
    IF \E i \in 1 .. Len(sections) : strip(sections[i].text) # <<>>
    THEN chunk_sections(sections, chunk_size, chunk_overlap, <<>>)
    ELSE chunk_text(full_text, "full_text", chunk_size, chunk_overlap)

\* locals of a chunk_text call that has not begun
NewCall(text, chunk_size, chunk_overlap) ==
    [pc |-> "call", text |-> text, chunk_size |-> chunk_size,
     chunk_overlap |-> chunk_overlap, start |-> 0, chunks |-> <<>>,
     iter |-> 0]

(* ------------------------------ Init ----------------------------------- *)
InitOrch ==
    /\ jobs = [j \in JobIds |-> NoJob]
    /\ nextJob = 1
    /\ task = [j \in JobIds |-> NoTask]
    /\ documents = {}
    /\ nextDoc = 1
    /\ nextFile = 1
    /\ batch = [st |-> "none", i |-> 0, first |-> 0, files |-> <<>>,
                resp |-> "none"]
    /\ cancel = [pc |-> "idle", job |-> 0, resp |-> "none", ret |-> "none",
                 n |-> 0]
    /\ lost = 0
    /\ up = [n |-> 0, resp |-> "none", file |-> NoFile]

\* no delete request yet, no background indexing task scheduled
NoRemoval ==
    [pc |-> "idle", document_id |-> 0, resp |-> "none", scheduled |-> {}]

\* SQL NULL / Python None of an optional string
Null == "null"

\* an empty document_chunks table and no search request yet
NoSearch ==
    [table |-> <<>>, resp |-> "none",
     request |-> [query |-> <<0, 0>>, max_results |-> 0, document_id |-> None,
                  section |-> Null, chunk_type |-> Null],
     results |-> <<>>, log |-> <<>>]

InitAux ==
    /\ run = NoRun
    /\ rm = NoRemoval
    /\ sr = NoSearch
    /\ tp = [pc |-> "idle", lines |-> <<>>, sections |-> <<>>]
    /\ gw = [pc |-> "idle", status |-> "none", ret |-> FALSE]
    /\ pg = [pc |-> "idle", chars |-> {}, raised |-> FALSE, result |-> <<>>]

NoRequest ==
    [pc |-> "idle", document_id |-> 0, chunks |-> <<>>, resp |-> "none",
     payload |-> [full_text |-> <<>>, sections |-> <<>>]]

InitIndex ==
    /\ index = {}
    /\ req = [r \in 1 .. MaxRequests |-> NoRequest]

Init ==
    /\ InitOrch
    /\ InitIndex
    /\ InitAux
    /\ ck = NewCall(<<>>, SettingsChunkSize, SettingsChunkOverlap)

\* process_document_task.delay(job_id, file_path, ...)
delay(t, j, f) == [t EXCEPT ![j] = [NoTask EXCEPT !.st = "queued", !.file = f]]

(* -------------------- POST /upload-async ------------------------------- *)
\* a file that is not a PDF is answered 400, one larger than max_file_size
\* 413; otherwise the file is saved under a fresh name, the job row is
\* committed, then the task is queued; when queueing raises, the handler
\* removes the file and answers 500
upload_document_async ==
    /\ up.n < MaxUploads
    /\ nextJob <= MaxJobs
    /\ \E file \in Files, queued \in BOOLEAN :
         LET answer(code) == [n |-> up.n + 1, resp |-> code, file |-> file]
         IN  IF ~file.pdf
             THEN /\ up' = answer("400")
                  /\ UNCHANGED <<jobs, task, nextJob, nextFile>>
             ELSE IF file.oversize
             THEN /\ up' = answer("413")
                  /\ UNCHANGED <<jobs, task, nextJob, nextFile>>
             ELSE /\ jobs' = create_job(jobs, nextJob, 0)
                  /\ task' = IF queued THEN delay(task, nextJob, nextFile)
                             ELSE task
                  /\ up' = answer(IF queued THEN "200" ELSE "500")
                  /\ nextJob' = nextJob + 1
                  /\ nextFile' = nextFile + 1
    /\ UNCHANGED <<documents, nextDoc, batch, cancel, lost, index, req, ck, aux>>

(* -------------------- process_document_task ---------------------------- *)
\* a worker takes the message from the queue (after its countdown)
Busy == {j \in JobIds : task[j].st \in {"running", "raised"}}

TaskStart(j) ==
    /\ task[j].st = "queued"
    /\ Cardinality(Busy) < NumWorkers
    /\ task' = [task EXCEPT ![j].st = "running", ![j].pc = 1, ![j].doc = 0]
    /\ UNCHANGED <<jobs, nextJob, documents, nextDoc, nextFile, batch, cancel, lost, index, req, ck, up, aux>>

\* update_job_status(db, job_id, 'processing', progress=Progress[pc])
WriteProgress(j) ==
    update_job_status(jobs, j, "processing", Progress[task[j].pc], FALSE, 0)

\* progress=0 and the 'start' step
Begin(j) ==
    /\ task[j].st = "running" /\ task[j].pc = 1
    /\ jobs' = WriteProgress(j)
    /\ task' = [task EXCEPT ![j].pc = 2]
    /\ UNCHANGED <<nextJob, documents, nextDoc, nextFile, batch, cancel, lost, index, req, ck, up, aux>>

\* Step 1: progress=10, PDFParser(file_path) raises FileNotFoundError when
\* the stored file is gone
InitializeParser(j) ==
    /\ task[j].st = "running" /\ task[j].pc = 2
    /\ jobs' = WriteProgress(j)
    /\ \E raises \in BOOLEAN :
         task' = IF raises THEN [task EXCEPT ![j].st = "raised"]
                 ELSE [task EXCEPT ![j].pc = 3]
    /\ UNCHANGED <<nextJob, documents, nextDoc, nextFile, batch, cancel, lost, index, req, ck, up, aux>>

\* Steps 2-7: progress 15, 25, 35, 50, 60, 70; the extractors catch their
\* own exceptions
ExtractStage(j) ==
    /\ task[j].st = "running" /\ task[j].pc \in 3 .. 8
    /\ jobs' = WriteProgress(j)
    /\ task' = [task EXCEPT ![j].pc = @ + 1]
    /\ UNCHANGED <<nextJob, documents, nextDoc, nextFile, batch, cancel, lost, index, req, ck, up, aux>>

\* Step 8: progress=80, crud.create_document(db, document_data)
CreateDocument(j) ==
    /\ task[j].st = "running" /\ task[j].pc = 9
    /\ jobs' = WriteProgress(j)
    /\ IF create_document_raises(documents, task[j].file)
       THEN /\ task' = [task EXCEPT ![j].st = "raised"]
            /\ UNCHANGED <<documents, nextDoc>>
       ELSE /\ documents' = create_document(documents, nextDoc, task[j].file, j)
            /\ nextDoc' = nextDoc + 1
            /\ task' = [task EXCEPT ![j].pc = 10, ![j].doc = nextDoc]
    /\ UNCHANGED <<nextJob, nextFile, batch, cancel, lost, index, req, ck, up, aux>>

\* Step 9: progress=90; VectorDBClient.process_document returns None on any
\* failure and the step has no effect on the tables of this service
VectorIndex(j) ==
    /\ task[j].st = "running" /\ task[j].pc = 10
    /\ jobs' = WriteProgress(j)
    /\ task' = [task EXCEPT ![j].pc = 11]
    /\ UNCHANGED <<nextJob, documents, nextDoc, nextFile, batch, cancel, lost, index, req, ck, up, aux>>

\* update_job_status(db, job_id, 'completed', progress=100, document_id=...)
Complete(j) ==
    /\ task[j].st = "running" /\ task[j].pc = 11
    /\ jobs' = update_job_status(jobs, j, "completed", 100, FALSE, task[j].doc)
    /\ task' = [task EXCEPT ![j].st = "success"]
    /\ UNCHANGED <<nextJob, documents, nextDoc, nextFile, batch, cancel, lost, index, req, ck, up, aux>>

\* retry whose countdown is computed from the incremented retry count
retry_late(t) ==
    [t EXCEPT !.st = "queued",
              !.countdown = RetryBase * (2 ^ (t.retries + 1)),
              !.retries = @ + 1]

\* self.retry(exc=e, countdown=60 * (2 ** self.request.retries))
retry(t) ==
    [t EXCEPT !.st = "queued",
              !.countdown = RetryBase * (2 ^ t.retries),
              !.retries = @ + 1]

\* except Exception: mark the job failed, then retry or return failure
HandleException(j) ==
    /\ task[j].st = "raised"
    /\ jobs' = update_job_status(jobs, j, "failed", None, TRUE, 0)
    /\ task' = [task EXCEPT ![j] =
                  IF task[j].retries < max_retries THEN retry(task[j])
                  ELSE [task[j] EXCEPT !.st = "failure"]]
    /\ UNCHANGED <<nextJob, documents, nextDoc, nextFile, batch, cancel, lost, index, req, ck, up, aux>>

\* task_acks_late=True, task_reject_on_worker_lost=True: when the worker
\* process dies the unacknowledged message goes back to the queue
WorkerLost(j) ==
    /\ task[j].st \in {"running", "raised"}
    /\ lost < MaxLost
    /\ lost' = lost + 1
    /\ task' = [task EXCEPT ![j].st = "queued"]
    /\ UNCHANGED <<jobs, nextJob, documents, nextDoc, nextFile, batch, cancel, index, req, ck, up, aux>>

(* -------------------- POST /jobs/{job_id}/cancel ----------------------- *)
\* the endpoint reads the job and answers 404 / 400 itself
CancelCheck(j) ==
    /\ cancel.pc = "idle"
    /\ cancel.n < MaxCancels
    /\ LET n == cancel.n + 1 IN
       cancel' =
         IF ~jobs[j].exists
         THEN [pc |-> "idle", job |-> j, resp |-> "404", ret |-> "none", n |-> n]
         ELSE IF jobs[j].status \in Terminal
         THEN [pc |-> "idle", job |-> j, resp |-> "400", ret |-> "none", n |-> n]
         ELSE [pc |-> "call", job |-> j, resp |-> "none", ret |-> "none", n |-> n]
    /\ UNCHANGED <<jobs, nextJob, task, documents, nextDoc, nextFile, batch, lost, index, req, ck, up, aux>>

\* JobsCRUD.cancel_job(db, job_id); the endpoint ignores its return value
CancelCall ==
    /\ cancel.pc = "call"
    /\ jobs' = cancel_job(jobs, cancel.job)
    /\ cancel' = [cancel EXCEPT !.pc = "idle", !.resp = "200",
                    !.ret = IF cancel_job_ret(jobs, cancel.job)
                            THEN "true" ELSE "false"]
    /\ UNCHANGED <<nextJob, task, documents, nextDoc, nextFile, batch, lost, index, req, ck, up, aux>>

(* -------------------- POST /documents/{id}/reprocess ------------------- *)
\* full reprocessing: a new job for the stored file of the document
reprocess_document(d) ==
    /\ d \in documents
    /\ nextJob <= MaxJobs
    /\ jobs' = create_job(jobs, nextJob, 0)
    /\ task' = delay(task, nextJob, d.filename)
    /\ nextJob' = nextJob + 1
    /\ UNCHANGED <<documents, nextDoc, nextFile, batch, cancel, lost, index, req, ck, up, aux>>

(* -------------------- batch upload and process_batch_task -------------- *)
\* POST /batch-upload saves the files and queues one process_batch_task
\* a file that is not a PDF raises HTTPException(400) inside the try block,
\* whose "except Exception" removes the saved files and answers 500; the
\* size of a file is not looked at
batch_upload ==
    /\ batch.resp = "none"
    /\ \E files \in [1 .. BatchSize -> Files], queued \in BOOLEAN :
         IF (\E i \in 1 .. BatchSize : ~files[i].pdf) \/ ~queued
         THEN /\ batch' = [batch EXCEPT !.files = files, !.resp = "500"]
              /\ UNCHANGED nextFile
         ELSE /\ batch' = [st |-> "queued", i |-> 0, first |-> nextFile,
                           files |-> files, resp |-> "200"]
              /\ nextFile' = nextFile + BatchSize
    /\ UNCHANGED <<jobs, nextJob, task, documents, nextDoc, cancel, lost, index, req, ck, up, aux>>

BatchStart ==
    /\ batch.st = "queued"
    /\ batch' = [batch EXCEPT !.st = "running", !.i = 0]
    /\ UNCHANGED <<jobs, nextJob, task, documents, nextDoc, nextFile, cancel, lost, index, req, ck, up, aux>>

\* one iteration of "for file_data in file_data_list": create_job, delay
BatchIterate ==
    /\ batch.st = "running" /\ batch.i < BatchSize
    /\ nextJob <= MaxJobs
    /\ jobs' = create_job(jobs, nextJob, TheBatch)
    /\ task' = delay(task, nextJob, batch.first + batch.i)
    /\ nextJob' = nextJob + 1
    /\ batch' = [batch EXCEPT !.i = @ + 1]
    /\ UNCHANGED <<documents, nextDoc, nextFile, cancel, lost, index, req, ck, up, aux>>

\* an exception inside the loop is caught: return {'success': False}
BatchRaise ==
    /\ batch.st = "running" /\ batch.i < BatchSize
    /\ batch' = [batch EXCEPT !.st = "failure"]
    /\ UNCHANGED <<jobs, nextJob, task, documents, nextDoc, nextFile, cancel, lost, index, req, ck, up, aux>>

\* return {'success': True, 'job_ids': job_ids, ...}
BatchReturn ==
    /\ batch.st = "running" /\ batch.i = BatchSize
    /\ batch' = [batch EXCEPT !.st = "success"]
    /\ UNCHANGED <<jobs, nextJob, task, documents, nextDoc, nextFile, cancel, lost, index, req, ck, up, aux>>

\* the batch worker dies: the message is delivered again
BatchLost ==
    /\ batch.st = "running"
    /\ lost < MaxLost
    /\ lost' = lost + 1
    /\ batch' = [batch EXCEPT !.st = "queued"]
    /\ UNCHANGED <<jobs, nextJob, task, documents, nextDoc, nextFile, cancel, index, req, ck, up, aux>>

(* ------------------------------ Next ----------------------------------- *)
Next ==
    \/ upload_document_async
    \/ \E j \in JobIds : TaskStart(j)
    \/ \E j \in JobIds : Begin(j)
    \/ \E j \in JobIds : InitializeParser(j)
    \/ \E j \in JobIds : ExtractStage(j)
    \/ \E j \in JobIds : CreateDocument(j)
    \/ \E j \in JobIds : VectorIndex(j)
    \/ \E j \in JobIds : Complete(j)
    \/ \E j \in JobIds : HandleException(j)
    \/ \E j \in JobIds : WorkerLost(j)
    \/ \E j \in 1 .. MaxUploads : CancelCheck(j)
    \/ CancelCall

Spec == Init /\ [][Next]_vars

\* the worker pool running the tasks of the jobs
Work ==
    \/ \E j \in JobIds : TaskStart(j)
    \/ \E j \in JobIds : Begin(j)
    \/ \E j \in JobIds : InitializeParser(j)
    \/ \E j \in JobIds : ExtractStage(j)
    \/ \E j \in JobIds : CreateDocument(j)
    \/ \E j \in JobIds : VectorIndex(j)
    \/ \E j \in JobIds : Complete(j)
    \/ \E j \in JobIds : HandleException(j)

NextBatch ==
    \/ batch_upload
    \/ BatchStart
    \/ BatchIterate
    \/ BatchRaise
    \/ BatchReturn
    \/ BatchLost
    \/ Work

SpecBatch == Init /\ [][NextBatch]_vars

\* uploads, reprocessing requests and the worker pool
NextReprocess ==
    \/ upload_document_async
    \/ \E d \in documents : reprocess_document(d)
    \/ \E j \in JobIds : WorkerLost(j)
    \/ Work

SpecReprocess == Init /\ [][NextReprocess]_vars

(* -------------------- task time limits --------------------------------- *)
\* task_soft_time_limit=3000: SoftTimeLimitExceeded is raised inside the
\* running task body; raised inside a callee that catches Exception (the
\* extractors, the OCR and vector clients) it is swallowed there, otherwise
\* it reaches the task's "except Exception"
SoftTimeLimit(j) ==
    /\ task[j].st = "running"
    /\ \E swallowed \in BOOLEAN :
         task' = IF swallowed THEN task ELSE [task EXCEPT ![j].st = "raised"]
    /\ UNCHANGED <<jobs, nextJob, documents, nextDoc, nextFile, batch, cancel, lost, index, req, ck, up, aux>>

\* task_time_limit=3600: the pool kills the child process that runs the
\* task; the task is reported as failed with TimeLimitExceeded and its
\* message is acknowledged; no code of the task runs any more
HardTimeLimit(j) ==
    /\ task[j].st \in {"running", "raised"}
    /\ task' = [task EXCEPT ![j].st = "timeout"]
    /\ UNCHANGED <<jobs, nextJob, documents, nextDoc, nextFile, batch, cancel, lost, index, req, ck, up, aux>>

\* uploads and the worker pool under its time limits
NextLimit ==
    \/ upload_document_async
    \/ \E j \in JobIds : SoftTimeLimit(j)
    \/ \E j \in JobIds : HardTimeLimit(j)
    \/ Work

SpecLimit == Init /\ [][NextLimit]_vars

\* the two upload endpoints and the batch task
NextUpload ==
    \/ upload_document_async
    \/ batch_upload
    \/ BatchStart
    \/ BatchIterate
    \/ BatchRaise
    \/ BatchReturn

SpecUpload == Init /\ [][NextUpload]_vars

(* -------------------- vector-db: POST /process-document ---------------- *)
\* request bodies: full_text and the sections dictionary in iteration order
TextA == <<"a", "b", ".", " ", "a">>
TextB == <<"a", " ", "a">>
TextBlank == <<" ">>
TextStuck == <<"a", "a", "a", "a", " ", "a", "a", "a">>

Payloads ==
    {[full_text |-> TextA, sections |-> <<>>],
     [full_text |-> TextBlank, sections |-> <<>>],
     [full_text |-> TextStuck, sections |-> <<>>],
     [full_text |-> TextA,
      sections |-> <<[name |-> "abstract", text |-> TextB],
                     [name |-> "introduction", text |-> TextBlank],
                     [name |-> "results", text |-> TextA]>>]}

Stored(d) == {row \in index : row.document_id = d}

\* a handler that leaves the existing chunks of the document in place
delete_chunks_by_document_kept(table, d) == table

\* crud.delete_chunks_by_document: delete and commit
delete_chunks_by_document(table, d) == {row \in table : row.document_id # d}

\* crud.create_chunks_batch: add_all and commit; r stands for the primary
\* keys the rows of this call receive
create_chunks_batch(table, chunks, d, r) ==
    table \cup {[id |-> r, document_id |-> d,
                 chunk_index |-> chunks[i].chunk_index,
                 section |-> chunks[i].section,
                 text |-> chunks[i].text] : i \in 1 .. Len(chunks)}

\* the handler up to its first commit: the existing chunks of the document
\* are deleted, then the text is chunked; no chunks: 400; a chunk_text call
\* that does not return leaves the request hanging
DeleteAndChunk(r, d, p) ==
    /\ req[r].pc = "idle"
    /\ index' = delete_chunks_by_document(index, d)
    /\ LET c == chunk_with_metadata(p.full_text, p.sections,
                                    SettingsChunkSize, SettingsChunkOverlap)
       IN  req' = [req EXCEPT ![r] =
                     IF ~c.ret
                     THEN [pc |-> "hung", document_id |-> d, chunks |-> <<>>,
                           resp |-> "none", payload |-> p]
                     ELSE IF c.chunks = <<>>
                     THEN [pc |-> "idle", document_id |-> d, chunks |-> <<>>,
                           resp |-> "400", payload |-> p]
                     ELSE [pc |-> "insert", document_id |-> d,
                           chunks |-> c.chunks, resp |-> "none", payload |-> p]]

\* a process-document request sent by any client of the service
ProcessDelete(r, d, p) ==
    /\ DeleteAndChunk(r, d, p)
    /\ UNCHANGED <<orch, ck, aux>>

\* embeddings are generated and the chunks stored in a second transaction
ProcessInsert(r) ==
    /\ req[r].pc = "insert"
    /\ index' = create_chunks_batch(index, req[r].chunks, req[r].document_id, r)
    /\ req' = [req EXCEPT ![r].pc = "idle", ![r].resp = "200",
                          ![r].chunks = <<>>]
    /\ UNCHANGED <<orch, ck, aux>>

\* embedder.generate_embeddings or the insert raises: 500
ProcessRaise(r) ==
    /\ req[r].pc = "insert"
    /\ req' = [req EXCEPT ![r].pc = "idle", ![r].resp = "500",
                          ![r].chunks = <<>>]
    /\ UNCHANGED <<orch, ck, index, aux>>

NextIndex ==
    \/ \E r \in 1 .. MaxRequests, d \in DocIds, p \in Payloads :
          ProcessDelete(r, d, p)
    \/ \E r \in 1 .. MaxRequests : ProcessInsert(r)
    \/ \E r \in 1 .. MaxRequests : ProcessRaise(r)

SpecIndex == Init /\ [][NextIndex]_vars

\* one client that sends its requests in sequence: request r only after
\* request r - 1 has been answered
SequentialProcess(r, d, p) ==
    /\ \A q \in 1 .. MaxRequests : req[q].pc = "idle"
    /\ req[r].resp = "none"
    /\ \A q \in 1 .. r - 1 : req[q].resp # "none"
    /\ ProcessDelete(r, d, p)

NextSequential ==
    \/ \E r \in 1 .. MaxRequests, d \in DocIds, p \in Payloads :
          SequentialProcess(r, d, p)
    \/ \E r \in 1 .. MaxRequests : ProcessInsert(r)
    \/ \E r \in 1 .. MaxRequests : ProcessRaise(r)

SpecSequential == Init /\ [][NextSequential]_vars

(* -------------------- POST /upload and DELETE /documents/{id} ---------- *)
\* POST /upload: a rejected or failing upload stores nothing; otherwise the
\* Document is created and process_in_vector_db is scheduled as a
\* background task
upload_document ==
    /\ nextDoc <= MaxDocs
    /\ \E file \in Files, raises \in BOOLEAN :
         IF ~file.pdf \/ file.oversize \/ raises
         THEN UNCHANGED <<documents, nextDoc, nextFile, rm>>
         ELSE /\ documents' = create_document(documents, nextDoc, nextFile, 0)
              /\ nextDoc' = nextDoc + 1
              /\ nextFile' = nextFile + 1
              /\ rm' = [rm EXCEPT !.scheduled = @ \cup {nextDoc}]
    /\ UNCHANGED <<jobs, nextJob, task, batch, cancel, lost, up, index, req, ck, run, sr, more>>

\* the background task: its process-document request reaches the vector-db
\* service, whose handler deletes the old chunks and chunks the text
process_in_vector_db(r, d, p) ==
    /\ d \in rm.scheduled
    /\ rm' = [rm EXCEPT !.scheduled = @ \ {d}]
    /\ DeleteAndChunk(r, d, p)
    /\ UNCHANGED <<orch, ck, run, sr, more>>

\* delete_document_by_id: crud.get_document, 404 when there is no such row
DeleteCheck(d) ==
    /\ rm.pc = "idle"
    /\ rm' = IF \E doc \in documents : doc.id = d
             THEN [rm EXCEPT !.pc = "chunks", !.document_id = d]
             ELSE [rm EXCEPT !.pc = "done", !.document_id = d, !.resp = "404"]
    /\ UNCHANGED <<orch, index, req, ck, run, sr, more>>

\* await vector_client.delete_document_chunks(document_id): the vector-db
\* service deletes the chunks, or the call fails and returns False; the
\* endpoint does not look at the result
DeleteChunks ==
    /\ rm.pc = "chunks"
    /\ \E ok \in BOOLEAN :
         index' = IF ok THEN delete_chunks_by_document(index, rm.document_id)
                  ELSE index
    /\ rm' = [rm EXCEPT !.pc = "row"]
    /\ UNCHANGED <<orch, req, ck, run, sr, more>>

\* crud.delete_document(db, document_id) and the 204 answer
DeleteRow ==
    /\ rm.pc = "row"
    /\ documents' = {doc \in documents : doc.id # rm.document_id}
    /\ rm' = [rm EXCEPT !.pc = "done", !.resp = "204"]
    /\ UNCHANGED <<jobs, nextJob, task, nextDoc, nextFile, batch, cancel, lost, up, index, req, ck, run, sr, more>>

NextDelete ==
    \/ upload_document
    \/ \E r \in 1 .. MaxRequests, d \in DocIds, p \in Payloads :
          process_in_vector_db(r, d, p)
    \/ \E r \in 1 .. MaxRequests : ProcessInsert(r)
    \/ \E r \in 1 .. MaxRequests : ProcessRaise(r)
    \/ \E d \in DocIds : DeleteCheck(d)
    \/ DeleteChunks
    \/ DeleteRow

SpecDelete == Init /\ [][NextDelete]_vars

(* -------------------- POST /search ------------------------------------- *)
\* embeddings are two-dimensional integer vectors of integral length, so
\* that cosine similarities can be compared exactly
Embeddings == {<<1, 0>>, <<0, 2>>, <<3, 4>>}

Queries == {<<1, 0>>, <<1, 1>>}

Sections == {"abstract", "methodology"}

ChunkTypes == {"text", "table"}

Dot(a, b) == a[1] * b[1] + a[2] * b[2]

Norm(a) == CHOOSE n \in 0 .. 5 : n * n = Dot(a, a)

\* 1 - (embedding <=> query), the cosine similarity Dot / (Norm * |query|),
\* scaled by the constant 10 * |query| of one search so that it is an integer
similarity(embedding, query) == (10 * Dot(embedding, query)) \div Norm(embedding)

\* SearchRequest: max_results has ge=1 and le=50
SearchRequest ==
    [query : Queries, max_results : {0, 1, 2, 50, 51},
     document_id : {None} \cup DocIds, section : {Null, "", "abstract"},
     chunk_type : {Null, "table"}]

ValidRequest(request) == request.max_results >= 1 /\ request.max_results <= 50

\* "if section:" and "if chunk_type:" are false for None and for ''
Truthy(v) == v # Null /\ v # ""

\* the WHERE clause built by search_similar_chunks
Where(row, request) ==
    /\ request.document_id # None => row.document_id = request.document_id
    /\ Truthy(request.section) => row.section = request.section
    /\ Truthy(request.chunk_type) => row.chunk_type = request.chunk_type

\* every answer the database may give to ORDER BY similarity DESC LIMIT
\* :max_results: the rows of equal similarity come in any order, and any of
\* them may be the ones the limit cuts off
search_similar_chunks(table, request) ==
    LET rows == {i \in 1 .. Len(table) : Where(table[i], request)}
        n == IF request.max_results < Cardinality(rows)
             THEN request.max_results ELSE Cardinality(rows)
        sim(i) == similarity(table[i].embedding, request.query)
    IN {res \in [1 .. n -> rows] :
          /\ \A i, j \in 1 .. n : i < j => res[i] # res[j] /\ sim(res[i]) >= sim(res[j])
          /\ \A i \in 1 .. n : \A k \in rows :
                (\A j \in 1 .. n : res[j] # k) => sim(res[i]) >= sim(k)}

\* crud.create_chunk: one more row; chunk_index is the next ordinal of the
\* document, as the chunker numbers them
create_chunk ==
    /\ sr.resp = "none"
    /\ Len(sr.table) < MaxChunks
    /\ \E d \in DocIds, section \in Sections, chunk_type \in ChunkTypes,
          embedding \in Embeddings :
         sr' = [sr EXCEPT !.table = Append(@,
                  [id |-> Len(sr.table) + 1, document_id |-> d,
                   chunk_index |-> Cardinality({i \in 1 .. Len(sr.table) :
                                                  sr.table[i].document_id = d}),
                   section |-> section, chunk_type |-> chunk_type,
                   embedding |-> embedding])]
    /\ UNCHANGED <<orch, index, req, ck, run, rm, more>>

\* an Optional[float] is the empty sequence for None, else <<value>>
\* "top_score = results[0][1] if results else None"
top_score_of(results, query) ==
    IF Len(results) > 0 THEN <<similarity(results[1].embedding, query)>> ELSE <<>>

\* log_search_query builds the row with
\* "top_score=str(top_score) if top_score else None": a float is false
\* when it is 0.0, as None is
log_search_query(log, query_text, results_count, top_score) ==
    Append(log, [query_text |-> query_text, results_count |-> results_count,
                 top_score |-> IF top_score # <<>> /\ top_score[1] # 0
                               THEN top_score ELSE <<>>])

\* semantic_search: 422 for a request the schema rejects, else the rows of
\* search_similar_chunks in the order the database returned them, and one
\* row more in search_queries
semantic_search ==
    /\ sr.resp = "none"
    /\ Len(sr.log) < MaxSearches
    /\ \E request \in SearchRequest :
         IF ~ValidRequest(request)
         THEN sr' = [sr EXCEPT !.resp = "422", !.request = request]
         ELSE \E res \in search_similar_chunks(sr.table, request) :
                LET results == [i \in 1 .. Len(res) |-> sr.table[res[i]]]
                IN sr' = [sr EXCEPT !.resp = "200", !.request = request,
                                    !.results = results,
                                    !.log = log_search_query(@, request.query,
                                              Len(results),
                                              top_score_of(results, request.query))]
    /\ UNCHANGED <<orch, index, req, ck, run, rm, more>>

\* the response has been sent; the next request may come
SearchReturn ==
    /\ sr.resp # "none"
    /\ sr' = [sr EXCEPT !.resp = "none", !.request = NoSearch.request,
                        !.results = <<>>]
    /\ UNCHANGED <<orch, index, req, ck, run, rm, more>>

NextSearch ==
    \/ create_chunk
    \/ semantic_search
    \/ SearchReturn

SpecSearch == Init /\ [][NextSearch]_vars

(* -------------------- TextProcessor.extract_sections ------------------- *)
\* a text is its sequence of lines (text.split('\n')); a line is one of
TitleLine == "Novel Approach to Deep Learning"
ParagraphLine == "we propose a new method that improves accuracy by 15%"

Lines ==
    {"Abstract", "Summary", "1. Introduction", "II. METHODS", "Discussion",
     "Conclusion", "body text", "OK", "42", "", TitleLine, ParagraphLine}

\* len(line.strip())
Length ==
    [l \in Lines |->
       CASE l = "Abstract" -> 8 [] l = "Summary" -> 7 [] l = "1. Introduction" -> 15
         [] l = "II. METHODS" -> 11 [] l = "Discussion" -> 10 [] l = "Conclusion" -> 10
         [] l = "body text" -> 9 [] l = "OK" -> 2 [] l = "42" -> 2 [] l = "" -> 0
         [] l = TitleLine -> 31 [] l = ParagraphLine -> 53]

\* len(line.split())
Words ==
    [l \in Lines |->
       CASE l \in {"Abstract", "Summary", "Discussion", "Conclusion", "OK", "42"} -> 1
         [] l \in {"1. Introduction", "II. METHODS", "body text"} -> 2
         [] l = "" -> 0 [] l = TitleLine -> 5 [] l = ParagraphLine -> 10]

SectionNames ==
    <<"abstract", "introduction", "methodology", "results", "conclusion",
      "references">>

\* section_patterns in dictionary order: for each section the lines that one
\* of its patterns matches after strip().lower()
\*   "Abstract" ^abstract\s*$, "Summary" ^summary\s*$,
\*   "1. Introduction" ^\d+\.?\s*introduction\s*$,
\*   "II. METHODS" ^[ivx]+\.?\s*(methodology|methods?)\s*$,
\*   "Discussion" ^discussion\s*$, "Conclusion" ^conclusions?\s*$
section_patterns ==
    <<{"Abstract", "Summary"}, {"1. Introduction"}, {"II. METHODS"}, {},
      {"Discussion", "Conclusion"}, {}>>

\* len(text) < 60 and word_count <= 6
is_short_line(line) == Length[line] < 60 /\ Words[line] <= 6

\* _is_all_caps or _has_header_formatting or _is_standalone_line or
\* _has_numbering or _is_short_line: every line that a pattern matches is
\* short
is_potential_header(line) == is_short_line(line)

\* an Optional[str]: <<>> for None, else <<v>> with v the sequence of lines
IsNone(v) == v = <<>>

RECURSIVE find_section_headers(_, _, _)
\* _find_section_headers from line i on; section_indices maps the k-th
\* section name to the 0-based index of its header line, -1 while not found
find_section_headers(lines, i, section_indices) ==
    IF i > Len(lines) THEN section_indices
    ELSE LET line == lines[i]
             hit == {k \in 1 .. Len(SectionNames) :
                        /\ section_indices[k] = -1
                        /\ line \in section_patterns[k]
                        /\ is_potential_header(line)}
         IN  IF Length[line] < 2 \/ Length[line] > 100 \/ hit = {}
             THEN find_section_headers(lines, i + 1, section_indices)
             ELSE find_section_headers(lines, i + 1,
                     [section_indices EXCEPT ![SetMin(hit)] = i - 1])

\* '\n'.join(lines).strip(): blank lines at both ends are gone
strip_lines(lines) ==
    LET keep == {i \in 1 .. Len(lines) : Length[lines[i]] > 0}
    IN  IF keep = {} THEN <<>> ELSE SubSeq(lines, SetMin(keep), SetMax(keep))

RECURSIVE word_count(_)
\* len(text.split())
word_count(lines) ==
    IF lines = <<>> THEN 0 ELSE Words[Head(lines)] + word_count(Tail(lines))

\* _clean_section_text: lines that are only a page number and lines shorter
\* than three characters, blank lines among them, are dropped
clean_section_text(lines) ==
    LET Keep(l) == l # "42" /\ Length[l] >= 3
    IN  SelectSeq(lines, Keep)

\* the search of patterns 1 and 2 of _extract_abstract_heuristic for a
\* keyword that stands at the start of a line: group(1) begins at the first
\* non-blank line after the keyword and ends before the first line that
\* begins with a stop word, or before a blank line that is followed by a
\* line beginning with a letter or a digit, or at the end of the text
keyword_capture(lines, keywords, stops) ==
    LET at == {i \in 1 .. Len(lines) : lines[i] \in keywords}
    IN  IF at = {} THEN <<>>
        ELSE LET from == {i \in SetMin(at) + 1 .. Len(lines) : Length[lines[i]] > 0}
             IN  IF from = {} THEN <<>>
                 ELSE LET s == SetMin(from)
                          ends == {e \in s .. Len(lines) :
                                     \/ e = Len(lines)
                                     \/ lines[e + 1] \in stops
                                     \/ /\ lines[e + 1] = ""
                                        /\ \E j \in e + 2 .. Len(lines) :
                                              /\ Length[lines[j]] > 0
                                              /\ \A m \in e + 1 .. j - 1 : lines[m] = ""}
                      IN  strip_lines(SubSeq(lines, s, SetMin(ends)))

\* _find_introduction_index: 0-based index of the first line that one of
\* intro_patterns matches, -1 when there is none
find_introduction_index(lines) ==
    LET at == {i \in 1 .. Len(lines) : lines[i] = "1. Introduction"}
    IN  IF at = {} THEN -1 ELSE SetMin(at) - 1

\* 50 <= word_count <= 2000
reasonable(lines) == word_count(lines) >= 50 /\ word_count(lines) <= 2000

extract_abstract_heuristic(lines) ==
    LET text_beginning == SubSeq(lines, 1, IF Len(lines) < 150 THEN Len(lines) ELSE 150)
        abstract_text == keyword_capture(text_beginning, {"Abstract"},
                                         {"1. Introduction"})
        summary_text == keyword_capture(text_beginning, {"Summary"},
                                        {"1. Introduction"})
        intro_idx == find_introduction_index(lines)
        potential_abstract == strip_lines(SubSeq(lines, 11, intro_idx))
    IN  IF reasonable(abstract_text) THEN <<abstract_text>>
        ELSE IF reasonable(summary_text) THEN <<summary_text>>
        ELSE IF intro_idx > 10 /\ reasonable(potential_abstract)
        THEN <<potential_abstract>>
        ELSE <<>>

\* the value of each section, in the order of SectionNames
extract_sections(lines) ==
    LET none == [k \in 1 .. Len(SectionNames) |-> -1]
        section_indices == find_section_headers(lines, 1, none)
        found == {k \in 1 .. Len(SectionNames) : section_indices[k] # -1}
        end_idx(k) ==
            LET later == {section_indices[n] : n \in {m \in found :
                              section_indices[m] > section_indices[k]}}
            IN  IF later = {} THEN Len(lines) ELSE SetMin(later)
        section_text(k) ==
            strip_lines(SubSeq(lines, section_indices[k] + 2, end_idx(k)))
        by_header == [k \in 1 .. Len(SectionNames) |->
                        IF k \in found /\ section_text(k) # <<>>
                        THEN <<section_text(k)>> ELSE <<>>]
        sections == [by_header EXCEPT ![1] =
                        IF IsNone(@) THEN extract_abstract_heuristic(lines) ELSE @]
    IN  [k \in 1 .. Len(SectionNames) |->
            IF IsNone(sections[k]) THEN <<>>
            ELSE <<clean_section_text(sections[k][1])>>]

\* short texts of every shape, and texts without an Abstract header: a
\* title and author block, a paragraph, then the Introduction
SectionTexts ==
    UNION {[1 .. n -> Lines \ {TitleLine, ParagraphLine}] : n \in 0 .. MaxLines}

HeuristicTexts ==
    {[i \in 1 .. a |-> TitleLine] \o <<"">> \o [i \in 1 .. b |-> ParagraphLine]
       \o <<"", "1. Introduction", "body text">> :
          a \in 0 .. MaxPreamble, b \in 0 .. MaxParagraph}

\* TextProcessor(text).extract_sections()
ExtractSections ==
    /\ tp.pc = "idle"
    /\ \E text \in SectionTexts \cup HeuristicTexts :
         tp' = [pc |-> "done", lines |-> text, sections |-> extract_sections(text)]
    /\ UNCHANGED <<orch, index, req, ck, run, rm, sr, gw, pg>>

NextSections == ExtractSections

SpecSections == Init /\ [][NextSections]_vars

(* -------------------- api-gateway: ServiceClient.delete_document ------- *)
\* the awaited client.delete(...) raises (no connection, timeout), which
\* may happen before, while or after the service handles the request:
\* "except Exception: return False"
GatewayRaise ==
    /\ gw.pc = "idle"
    /\ gw' = [pc |-> "done", status |-> "raised", ret |-> FALSE]
    /\ UNCHANGED <<orch, index, req, ck, run, rm, sr, tp, pg>>

\* the response of the service has arrived:
\* "return response.status_code == 200"
GatewayReturn ==
    /\ gw.pc = "idle"
    /\ rm.pc = "done"
    /\ gw' = [pc |-> "done", status |-> rm.resp, ret |-> rm.resp = "200"]
    /\ UNCHANGED <<orch, index, req, ck, run, rm, sr, tp, pg>>

\* the gateway as the client of DELETE /documents/{id}
NextGateway ==
    \/ upload_document
    \/ \E r \in 1 .. MaxRequests, d \in DocIds, p \in Payloads :
          process_in_vector_db(r, d, p)
    \/ \E r \in 1 .. MaxRequests : ProcessInsert(r)
    \/ \E r \in 1 .. MaxRequests : ProcessRaise(r)
    \/ \E d \in DocIds : DeleteCheck(d)
    \/ DeleteChunks
    \/ DeleteRow
    \/ GatewayRaise
    \/ GatewayReturn

SpecGateway == Init /\ [][NextGateway]_vars

(* -------------------- PDFParser._extract_text_from_page ---------------- *)
\* a page of width 92 and two text rows; a character is narrower than a
\* bin and lies inside one: it is the pair of its row and its bin
page_width == 92

Rows == 1 .. 2

\* bin_size = max(8, int(page_width / 100))
bin_size == IF page_width \div 100 > 8 THEN page_width \div 100 ELSE 8

\* bins = [0] * (int(page_width // bin_size) + 1), indexed from 0
NumBins == page_width \div bin_size + 1

Positions == Rows \X (0 .. NumBins - 1)

RECURSIVE SubsetsUpTo(_, _)
SubsetsUpTo(S, n) ==
    IF n = 0 THEN {{}}
    ELSE LET smaller == SubsetsUpTo(S, n - 1)
         IN  smaller \cup {T \cup {x} : T \in smaller, x \in S}

Pages == SubsetsUpTo(Positions, MaxChars)

\* extract_text() of the page or of a crop of it: the rows that have
\* characters, top to bottom, each with its characters from left to right;
\* the empty sequence is "" (or None)
RECURSIVE SortedBins(_)
SortedBins(B) ==
    IF B = {} THEN <<>> ELSE <<SetMin(B)>> \o SortedBins(B \ {SetMin(B)})

RowText(chars, r) == SortedBins({c[2] : c \in {d \in chars : d[1] = r}})

RECURSIVE extract_text(_, _)
extract_text(chars, r) ==
    IF r > 2 THEN <<>>
    ELSE (IF RowText(chars, r) = <<>> THEN <<>> ELSE <<RowText(chars, r)>>)
         \o extract_text(chars, r + 1)

\* sum of bins[max(0, i - w) : min(len(bins), i + w + 1)] with w = 3, and
\* the length of that window
WindowOf(i) ==
    (IF i - 3 < 0 THEN 0 ELSE i - 3) .. (IF i + 3 > NumBins - 1 THEN NumBins - 1 ELSE i + 3)

WindowSum(chars, i) == Cardinality({c \in chars : c[2] \in WindowOf(i)})

\* smoothed[i] < 0.08 * max_density, with smoothed[i] = WindowSum / window
\* length, compared without rounding
BelowThreshold(chars, i) ==
    \E j \in 0 .. NumBins - 1 :
        100 * WindowSum(chars, i) * Cardinality(WindowOf(j))
          < 8 * WindowSum(chars, j) * Cardinality(WindowOf(i))

\* the first bin from int(len * 0.25) to int(len * 0.75) - 1 whose smoothed
\* density is below the threshold; -1 for None
find_gap(chars) ==
    LET low == {i \in (NumBins * 25) \div 100 .. (NumBins * 75) \div 100 - 1 :
                  BelowThreshold(chars, i)}
    IN  IF low = {} THEN -1 ELSE SetMin(low)

\* page.crop(left_bbox), left_bbox = (0, 0, gap_x + padding, height), and
\* page.crop(right_bbox), right_bbox = (gap_x - padding, 0, width, height),
\* with padding = bin_size // 2: the characters that reach into the box
crop_left(chars, gap_idx) ==
    {c \in chars : c[2] * bin_size < gap_idx * bin_size + bin_size \div 2}

crop_right(chars, gap_idx) ==
    {c \in chars : (c[2] + 1) * bin_size > gap_idx * bin_size - bin_size \div 2}

\* left + "\n\n" + right without the final strip()
combined_text_unstripped(left, right) == left \o << <<>> >> \o right

\* (left.strip() + "\n\n" + right.strip()).strip(); a blank line is <<>>
combined_text(left, right) ==
    IF left = <<>> THEN right
    ELSE IF right = <<>> THEN left
    ELSE left \o << <<>> >> \o right

extract_text_from_page(chars, raises) ==
    LET gap_idx == find_gap(chars)
        combined == combined_text(extract_text(crop_left(chars, gap_idx), 1),
                                  extract_text(crop_right(chars, gap_idx), 1))
    IN  IF chars = {} \/ raises THEN extract_text(chars, 1)
        ELSE IF gap_idx # -1 /\ combined # <<>> THEN combined
        ELSE extract_text(chars, 1)

\* one call; raises: an exception inside the try block, answered with
\* page.extract_text() by the handler
ExtractTextFromPage ==
    /\ pg.pc = "idle"
    /\ \E chars \in Pages, raises \in BOOLEAN :
         pg' = [pc |-> "done", chars |-> chars, raised |-> raises,
                result |-> extract_text_from_page(chars, raises)]
    /\ UNCHANGED <<orch, index, req, ck, run, rm, sr, tp, gw>>

NextPage == ExtractTextFromPage

SpecPage == Init /\ [][NextPage]_vars

(* -------------------- TextChunker.chunk_text, step by step ------------- *)
InitChunk ==
    /\ InitOrch
    /\ InitIndex
    /\ InitAux
    /\ ck \in {NewCall(t, cs, co) : t \in Texts, cs \in 1 .. MaxChunkSize,
                                   co \in 1 .. MaxChunkOverlap}

\* if not text or not text.strip(): return []
ChunkEnter ==
    /\ ck.pc = "call"
    /\ ck' = [ck EXCEPT !.pc = IF strip(ck.text) = <<>> THEN "done" ELSE "loop"]
    /\ UNCHANGED <<orch, index, req, aux>>

\* one iteration of "while start < len(text)"
ChunkStep ==
    /\ ck.pc = "loop"
    /\ ck.start < Len(ck.text)
    /\ ck.iter < MaxIter(ck.text)
    /\ LET end == WindowEnd(ck.text, ck.start, ck.chunk_size)
       IN  ck' = [ck EXCEPT
                    !.chunks = AppendChunk(ck.chunks, ck.text, ck.start, end, "none"),
                    !.start = NextStart(ck.text, end, ck.chunk_overlap),
                    !.iter = @ + 1]
    /\ UNCHANGED <<orch, index, req, aux>>

\* return chunks
ChunkReturn ==
    /\ ck.pc = "loop"
    /\ ck.start >= Len(ck.text)
    /\ ck' = [ck EXCEPT !.pc = "done"]
    /\ UNCHANGED <<orch, index, req, aux>>

NextChunk ==
    \/ ChunkEnter
    \/ ChunkStep
    \/ ChunkReturn

SpecChunk == InitChunk /\ [][NextChunk]_vars

(* -------------- process_document_task, stage by stage ------------------ *)
\* JobsCRUD.update_job_status applied to the row of the one job of the run
update_row(job, status, progress, error_message, document_id) ==
    update_job_status(<<job>>, 1, status, progress, error_message, document_id)[1]

\* add_processing_step that overwrites the row of the same step_name when
\* there is one, instead of inserting a new row
add_processing_step_upsert(steps, step_name, status, now) ==
    IF \E i \in 1 .. Len(steps) : steps[i].step_name = step_name
    THEN [i \in 1 .. Len(steps) |->
            IF steps[i].step_name = step_name
            THEN [step_name |-> step_name, status |-> status,
                  started_at |-> now]
            ELSE steps[i]]
    ELSE Append(steps, [step_name |-> step_name, status |-> status,
                        started_at |-> now])

\* JobsCRUD.add_processing_step: a new ProcessingStep row is inserted and
\* committed; started_at is the datetime.utcnow() read by the call
add_processing_step(steps, step_name, status, now) ==
    Append(steps, [step_name |-> step_name, status |-> status,
                   started_at |-> now])

\* ORDER BY started_at over the rows of the table
RECURSIVE InsertByStartedAt(_, _)
InsertByStartedAt(sorted, e) ==
    IF sorted = <<>> THEN <<e>>
    ELSE IF e.started_at < Head(sorted).started_at THEN <<e>> \o sorted
    ELSE <<Head(sorted)>> \o InsertByStartedAt(Tail(sorted), e)

RECURSIVE order_by_started_at(_)
order_by_started_at(rows) ==
    IF rows = <<>> THEN <<>>
    ELSE InsertByStartedAt(order_by_started_at(SubSeq(rows, 1, Len(rows) - 1)),
                           rows[Len(rows)])

\* JobsCRUD.get_job_steps
get_job_steps(steps) == order_by_started_at(steps)

\* the DOI candidates extract_dois finds in a text, each with the answer
\* validate_doi gives for it (TRUE: CrossRef answers 200)
DoiInputs == {<<>>, <<TRUE>>, <<FALSE>>, <<FALSE, TRUE>>, <<FALSE, FALSE>>}

\* DOIExtractor.extract_and_validate: the position of the DOI it returns
\* in the list of candidates, 0 for None
extract_and_validate(dois, validate) ==
    IF dois = <<>> THEN 0
    ELSE IF ~validate THEN 1
    ELSE IF \E i \in 1 .. Len(dois) : dois[i]
    THEN SetMin({i \in 1 .. Len(dois) : dois[i]})
    ELSE 1

\* PDFParser.extract_tables / extract_figures / extract_references: the
\* number of items returned; an exception inside is caught and the items
\* collected so far (none here) are returned
Extracted(outcome) == IF outcome = "some" THEN 1 ELSE 0

ExtractOutcomes == {"throws", "none", "some"}

\* what VectorDBClient.process_document meets
VectorOutcomes == {"ok", "service_error", "timeout", "no_chunks"}

\* VectorDBClient.process_document: the response, or "None" on every failure
vector_process_document(outcome) == IF outcome = "ok" THEN "result" ELSE "None"

\* the run with one more step logged; the clock has moved on at the next call
Log(r, step_name, status) ==
    [r EXCEPT !.steps = add_processing_step(@, step_name, status, r.now),
              !.now = @ + 1]

\* the run after update_job_status(db, job_id, 'processing', progress=p)
Processing(r, p) ==
    [r EXCEPT !.job = update_row(@, "processing", p, FALSE, 0)]

\* upload_document_async: create_job, then process_document_task.delay
RunSubmit ==
    /\ run.st = "none"
    /\ run' = [run EXCEPT !.st = "queued", !.job = NewJob(0)]
    /\ UNCHANGED <<orch, index, req, ck, rm, sr, more>>

\* a worker takes the message; the locals of the body are fresh
RunTaskStart ==
    /\ run.st = "queued"
    /\ run' = [run EXCEPT !.st = "running", !.pc = "start", !.loc = NoLocals]
    /\ UNCHANGED <<orch, index, req, ck, rm, sr, more>>

\* progress=0 and the 'start' step
RunStart ==
    /\ run.st = "running" /\ run.pc = "start"
    /\ run' = [Log(Processing(run, 0), "start", "started")
                 EXCEPT !.pc = "initialize_parser"]
    /\ UNCHANGED <<orch, index, req, ck, rm, sr, more>>

\* Step 1: PDFParser(file_path) raises when the file is gone;
\* extract_metadata catches its own exceptions
RunInitializeParser ==
    /\ run.st = "running" /\ run.pc = "initialize_parser"
    /\ \E raises \in BOOLEAN :
         run' = IF raises
                THEN [Processing(run, 10) EXCEPT !.st = "raised"]
                ELSE [Log(Processing(run, 10), "initialize_parser", "completed")
                        EXCEPT !.pc = "ocr"]
    /\ UNCHANGED <<orch, index, req, ck, rm, sr, more>>

\* Step 2: is_scanned_pdf; a scanned PDF goes through extract_text_with_ocr,
\* which reports success False instead of raising; parser.extract_text()
\* returns "" when both of its extractors fail or find no text
RunOcr ==
    /\ run.st = "running" /\ run.pc = "ocr"
    /\ \E is_scanned \in BOOLEAN, ocr_success \in BOOLEAN,
          direct \in {"empty", "direct"} :
         LET r0 == Processing(run, 15)
             r1 == Log(r0, "ocr_detection", "completed")
         IN  run' =
               IF is_scanned
               THEN IF ocr_success
                    THEN [Log(r1, "ocr_extraction", "completed")
                            EXCEPT !.loc.ocr_applied = TRUE,
                                   !.loc.full_text = "ocr",
                                   !.pc = "doi_extraction"]
                    ELSE [r1 EXCEPT !.loc.full_text = direct,
                                    !.loc.caught = "ocr",
                                    !.pc = "doi_extraction"]
               ELSE [r1 EXCEPT !.loc.full_text = direct,
                               !.pc = "doi_extraction"]
    /\ UNCHANGED <<orch, index, req, ck, rm, sr, more>>

\* Step 3: DOIExtractor.extract_and_validate(full_text, validate=True)
RunDoi ==
    /\ run.st = "running" /\ run.pc = "doi_extraction"
    /\ \E dois \in (IF run.loc.full_text = "empty" THEN {<<>>} ELSE DoiInputs) :
         run' = [Log(Processing(run, 25), "doi_extraction", "completed")
                   EXCEPT !.loc.dois = dois,
                          !.loc.doi = extract_and_validate(dois, TRUE),
                          !.loc.caught = "none",
                          !.pc = "structure_parsing"]
    /\ UNCHANGED <<orch, index, req, ck, rm, sr, more>>

\* Step 4: TextProcessor(full_text).extract_sections()
RunStructure ==
    /\ run.st = "running" /\ run.pc = "structure_parsing"
    /\ run' = [Log(Processing(run, 35), "structure_parsing", "completed")
                 EXCEPT !.pc = "table_extraction"]
    /\ UNCHANGED <<orch, index, req, ck, rm, sr, more>>

\* Step 5: parser.extract_tables() catches every exception itself; the step
\* is logged as completed whatever happened inside
RunTables ==
    /\ run.st = "running" /\ run.pc = "table_extraction"
    /\ \E outcome \in ExtractOutcomes :
         run' = [Log(Processing(run, 50), "table_extraction", "completed")
                   EXCEPT !.loc.tables = Extracted(outcome),
                          !.loc.caught = IF outcome = "throws"
                                         THEN "table_extraction" ELSE "none",
                          !.pc = "figure_extraction"]
    /\ UNCHANGED <<orch, index, req, ck, rm, sr, more>>

\* Step 6: parser.extract_figures(): output_dir.mkdir runs outside the try
\* block, the rest catches its exceptions
RunFigures ==
    /\ run.st = "running" /\ run.pc = "figure_extraction"
    /\ \E mkdir_raises \in BOOLEAN, outcome \in ExtractOutcomes :
         run' = IF mkdir_raises
                THEN [Processing(run, 60) EXCEPT !.st = "raised"]
                ELSE [Log(Processing(run, 60), "figure_extraction", "completed")
                        EXCEPT !.loc.figures = Extracted(outcome),
                               !.loc.caught = IF outcome = "throws"
                                              THEN "figure_extraction"
                                              ELSE "none",
                               !.pc = "reference_extraction"]
    /\ UNCHANGED <<orch, index, req, ck, rm, sr, more>>

\* Step 7: parser.extract_references() catches every exception itself
RunReferences ==
    /\ run.st = "running" /\ run.pc = "reference_extraction"
    /\ \E outcome \in ExtractOutcomes :
         run' = [Log(Processing(run, 70), "reference_extraction", "completed")
                   EXCEPT !.loc.references = Extracted(outcome),
                          !.loc.caught = IF outcome = "throws"
                                         THEN "reference_extraction"
                                         ELSE "none",
                          !.pc = "database_storage"]
    /\ UNCHANGED <<orch, index, req, ck, rm, sr, more>>

\* the Document built from the locals: document_data of Step 8
document_data(loc) ==
    [id |-> 1, full_text |-> loc.full_text, doi |-> loc.doi,
     ocr_applied |-> loc.ocr_applied, tables_data |-> loc.tables,
     tables_extracted |-> loc.tables # 0, processing_job_id |-> 1]

\* Step 8: crud.create_document; its commit may raise
RunStorage ==
    /\ run.st = "running" /\ run.pc = "database_storage"
    /\ \E raises \in BOOLEAN :
         run' = IF raises \/ run.document.id # 0
                THEN [Processing(run, 80) EXCEPT !.st = "raised"]
                ELSE [Log(Processing(run, 80), "database_storage", "completed")
                        EXCEPT !.document = document_data(run.loc),
                               !.loc.caught = "none",
                               !.pc = "vector_db_indexing"]
    /\ UNCHANGED <<orch, index, req, ck, rm, sr, more>>

\* Step 9: the client call inside try/except; the client returns None on a
\* failure, so the except branch is only reached when setting up the event
\* loop or the client raises
RunVector ==
    /\ run.st = "running" /\ run.pc = "vector_db_indexing"
    /\ \E outcome \in VectorOutcomes, setup_raises \in BOOLEAN :
         run' = [Log(Processing(run, 90), "vector_db_indexing",
                     IF setup_raises THEN "failed" ELSE "completed")
                   EXCEPT !.loc.caught =
                             IF setup_raises
                                \/ vector_process_document(outcome) = "None"
                             THEN "vector_db_indexing" ELSE "none",
                          !.pc = "completion"]
    /\ UNCHANGED <<orch, index, req, ck, rm, sr, more>>

\* update_job_status(..., 'completed', progress=100, document_id=document.id)
\* and the 'completion' step
RunComplete ==
    /\ run.st = "running" /\ run.pc = "completion"
    /\ run' = [Log([run EXCEPT !.job = update_row(@, "completed", 100, FALSE,
                                                   run.document.id)],
                   "completion", "completed")
                 EXCEPT !.st = "success"]
    /\ UNCHANGED <<orch, index, req, ck, rm, sr, more>>

\* except Exception: the job is marked failed, the 'error' step is logged,
\* then the task retries or returns the failure
RunHandleException ==
    /\ run.st = "raised"
    /\ LET r == Log([run EXCEPT !.job = update_row(@, "failed", None, TRUE, 0)],
                    "error", "failed")
       IN  run' = IF run.retries < max_retries THEN retry(r)
                  ELSE [r EXCEPT !.st = "failure"]
    /\ UNCHANGED <<orch, index, req, ck, rm, sr, more>>

NextPipeline ==
    \/ RunSubmit
    \/ RunTaskStart
    \/ RunStart
    \/ RunInitializeParser
    \/ RunOcr
    \/ RunDoi
    \/ RunStructure
    \/ RunTables
    \/ RunFigures
    \/ RunReferences
    \/ RunStorage
    \/ RunVector
    \/ RunComplete
    \/ RunHandleException

SpecPipeline == Init /\ [][NextPipeline]_vars

TypeOK ==
    /\ nextJob \in 1 .. (MaxJobs + 1)
    /\ \A j \in JobIds : jobs[j].exists <=> j < nextJob
    /\ \A j \in JobIds : task[j].retries \in 0 .. max_retries
(* ======================== job status machine =========================== *)

\* C1: once a job's status is completed, failed or cancelled, no later
\* operation changes its status or its progress.
C1_TerminalIsFinal ==
    [][\A j \in JobIds :
          jobs[j].status \in Terminal
          => /\ jobs'[j].status = jobs[j].status
             /\ jobs'[j].progress = jobs[j].progress]_vars

\* C2: the progress values stored for a job while its status is processing
\* never decrease, across first runs, retries and redelivered tasks.
C2_ProgressMonotonic ==
    [][\A j \in JobIds :
          jobs[j].status = "processing" /\ jobs'[j].status = "processing"
          => jobs'[j].progress >= jobs[j].progress]_vars

\* C3: completed_at is non-null exactly when the status is terminal.
C3_CompletedAtIffTerminal ==
    \A j \in JobIds :
        jobs[j].exists
        => (jobs[j].completed_at # 0 <=> jobs[j].status \in Terminal)

\* C4: after a job was cancelled while its worker is still running, the job
\* stays cancelled and its progress no longer advances.
C4_CancelledStaysCancelled ==
    [][\A j \in JobIds :
          jobs[j].status = "cancelled" /\ task[j].st = "running"
          => /\ jobs'[j].status = "cancelled"
             /\ jobs'[j].progress <= jobs[j].progress]_vars

RetryCountdowns == <<60, 120, 240>>

C7_RerunPersistenceSucceeds ==
    /\ \A j \in JobIds : ~(task[j].st = "raised" /\ task[j].pc = 9)
    /\ \A d1, d2 \in documents : d1.filename = d2.filename => d1 = d2

(* =========================== batch fan-out ============================= *)

\* the per-status counts of get_batch_summary, summed
SummarySum(js, b) ==
    by_status(js, b, "pending") + by_status(js, b, "processing")
    + by_status(js, b, "completed") + by_status(js, b, "failed")
    + by_status(js, b, "cancelled")

\* C10: a batch of N files yields exactly N jobs with its batch_id, one per
\* input file, each enqueued once, also when the batch task is delivered
\* again or raises part-way; the summary's per-status counts sum to N.
C10_BatchFanOut ==
    /\ \A j1, j2 \in get_batch_jobs(jobs, TheBatch) :
          task[j1].file = task[j2].file => j1 = j2
    /\ batch.st \in {"success", "failure"}
       => /\ total_jobs(jobs, TheBatch) = BatchSize
          /\ SummarySum(jobs, TheBatch) = BatchSize
          /\ \A j \in get_batch_jobs(jobs, TheBatch) : task[j].st # "none"
(* ============================ vector index ============================= *)

\* C8: for every document, once no (re)indexing request for it is in
\* progress, the chunk_index values of its stored chunks are exactly 0..N-1,
\* without gaps and without duplicates, also when two requests for the same
\* document interleaved their delete and insert steps.
C8_ChunkIndexContiguous ==
    \A d \in DocIds :
        (\A r \in 1 .. MaxRequests :
            ~(req[r].pc = "insert" /\ req[r].document_id = d))
        => {row.chunk_index : row \in Stored(d)}
             = 0 .. (Cardinality(Stored(d)) - 1)

(* ============================== chunker ================================ *)

\* C9: chunk_text terminates for every text and configuration: each
\* iteration of its loop moves the window start strictly forward.
C9_WindowAdvances ==
    [][(ck.pc = "loop" /\ ck'.iter # ck.iter) => ck'.start > ck.start]_vars

(* ===================== pipeline error handling ========================= *)

\* the entries of the step log with the given name and status
Logged(steps, step_name, status) ==
    {i \in 1 .. Len(steps) : /\ steps[i].step_name = step_name
                              /\ steps[i].status = status}

\* C11: when Vector DB indexing fails after the Document was persisted
\* (service error, timeout, no chunks), the step log has a
\* vector_db_indexing entry with status failed and the job ends completed
\* with its document_id set.
C11_IndexingFailureLogged ==
    (run.st = "success" /\ run.loc.caught = "vector_db_indexing")
    => /\ run.job.status = "completed"
       /\ run.job.document_id = run.document.id
       /\ run.document.id # 0
       /\ Logged(run.steps, "vector_db_indexing", "failed") # {}

\* C12: when the table, figure or reference extractor throws, a step with
\* status failed is logged for that stage and the stage yields an empty
\* result; a PDF without tables ends completed with tables_extracted false
\* and no tables.
C12_ExtractorFailureLogged ==
    /\ (/\ run.loc.caught \in {"table_extraction", "figure_extraction",
                               "reference_extraction"}
        /\ run.steps[Len(run.steps)].step_name = run.loc.caught)
       => run.steps[Len(run.steps)].status = "failed"
    /\ run.loc.caught = "table_extraction" => run.loc.tables = 0
    /\ run.loc.caught = "figure_extraction" => run.loc.figures = 0
    /\ run.loc.caught = "reference_extraction" => run.loc.references = 0
    /\ (run.st = "success" /\ run.loc.tables = 0)
       => /\ run.job.status = "completed"
          /\ ~run.document.tables_extracted
          /\ run.document.tables_data = 0

\* C13: when OCR is attempted and fails, the run goes on with the directly
\* extracted text, ocr_applied stays false, and an OCR step with status
\* failed is in the step log.
C13_OcrFailureLogged ==
    run.loc.caught = "ocr"
    => /\ run.st = "running"
       /\ ~run.loc.ocr_applied
       /\ run.loc.full_text \in {"empty", "direct"}
       /\ \/ Logged(run.steps, "ocr_extraction", "failed") # {}
          \/ Logged(run.steps, "ocr_detection", "failed") # {}

\* C14: no job is completed, and no Document is persisted, with an empty
\* full_text: a run whose text extraction yields nothing fails.
C14_CompletedHasFullText ==
    /\ run.job.status = "completed" => run.document.full_text # "empty"
    /\ run.document.id # 0 => run.document.full_text # "empty"

\* C15: when DOI candidates are found and every one fails validation,
\* extract_and_validate returns None and the Document is stored with a null
\* doi; the job does not fail for it.
C15_UnvalidatedDoiDropped ==
    (run.loc.dois # <<>> /\ \A i \in 1 .. Len(run.loc.dois) : ~run.loc.dois[i])
    => /\ run.loc.doi = 0
       /\ run.document.id # 0 => run.document.doi = 0

(* ============================= step log ================================ *)

\* the step names a stage records under
StageSteps(pc) ==
    IF pc = "ocr" THEN {"ocr_detection", "ocr_extraction"} ELSE {pc}

\* C19: the step log of a job is append-only; no recorded entry is changed
\* later; a processing stage records its entry before the next stage begins;
\* get_job_steps returns the entries in the order they were recorded.
C19_StepLogOrdered ==
    [][/\ Len(run'.steps) >= Len(run.steps)
       /\ SubSeq(run'.steps, 1, Len(run.steps)) = run.steps
       /\ get_job_steps(run'.steps) = run'.steps
       /\ (/\ run.st = "running" /\ run'.st = "running"
           /\ run.pc # "start" /\ run'.pc # run.pc)
          => /\ Len(run'.steps) > Len(run.steps)
             /\ run'.steps[Len(run'.steps)].step_name \in StageSteps(run.pc)
             /\ run'.steps[Len(run'.steps)].status \in {"completed", "failed"}]_vars

\* C19 witness: a job completed by its second or later attempt; its log
\* holds the entries of the failed attempts followed by those of the last
C19_Witness ==
    /\ run.st = "success"
    /\ run.retries >= 1
    /\ Logged(run.steps, "error", "failed") # {}
    /\ run.steps[Len(run.steps)].step_name = "completion"

(* ========================= input validation ============================ *)

Invalid(file) == ~file.pdf \/ file.oversize

ClientErrors == {"400", "413"}

\* C17: for upload-async and for batch-upload, a file that is not a PDF or
\* that exceeds max_file_size is rejected with a client error before any
\* job is created or any task is queued for it.
C17_InputErrorsRejected ==
    [][/\ (up'.n # up.n /\ Invalid(up'.file))
          => /\ up'.resp \in ClientErrors
             /\ jobs' = jobs
             /\ task' = task
       /\ (/\ batch.resp = "none" /\ batch'.resp # "none"
           /\ \E i \in 1 .. BatchSize : Invalid(batch'.files[i]))
          => /\ batch'.resp \in ClientErrors
             /\ batch'.st = "none"
       /\ \A j \in get_batch_jobs(jobs', TheBatch) :
             ~Invalid(batch'.files[task'[j].file - batch'.first + 1])]_vars

(* ============================ time limits ============================== *)

\* C18: a job whose worker was stopped by the hard time limit is moved to
\* status failed; it does not stay in status processing.
C18_TimeLimitFailsJob ==
    \A j \in JobIds : task[j].st = "timeout" => jobs[j].status = "failed"

(* ========================== document deletion ========================== *)

\* C16: once the delete-document request has completed and the Document
\* row is gone, no chunk with that document_id remains in the vector index,
\* also when the Vector DB delete call failed or an indexing task for the
\* document was still in flight.
C16_DeleteCascadesToChunks ==
    (rm.pc = "done" /\ rm.resp = "204")
    => /\ ~\E doc \in documents : doc.id = rm.document_id
       /\ Stored(rm.document_id) = {}

(* ============================== search ================================= *)

\* a filter is requested when the request carries a non-empty value for it
Filters(row, request) ==
    /\ request.document_id # None => row.document_id = request.document_id
    /\ request.section \notin {Null, ""} => row.section = request.section
    /\ request.chunk_type \notin {Null, ""} => row.chunk_type = request.chunk_type

\* C20: an answered search has max_results in 1..50 and returns at most
\* max_results chunks, each satisfying the requested document_id, section
\* and chunk_type filters, in order of non-increasing similarity, chunks of
\* equal similarity in ascending chunk_index order.
C20_SearchRanked ==
    sr.resp = "200"
    => LET res == sr.results
           sim(i) == similarity(res[i].embedding, sr.request.query)
       IN /\ sr.request.max_results \in 1 .. 50
          /\ Len(res) <= sr.request.max_results
          /\ \A i \in 1 .. Len(res) : Filters(res[i], sr.request)
          /\ \A i, j \in 1 .. Len(res) :
                i < j => /\ sim(i) >= sim(j)
                         /\ sim(i) = sim(j) => res[i].chunk_index <= res[j].chunk_index

\* C21: every executed search appends exactly one SearchQuery record holding
\* the query text, the number of results returned and the top similarity
\* score, which is absent only when there are no results; a rejected request
\* appends nothing, and no step changes or removes a record already there.
C21_SearchLogged ==
    [][/\ Len(sr'.log) >= Len(sr.log)
       /\ SubSeq(sr'.log, 1, Len(sr.log)) = sr.log
       /\ IF sr.resp = "none" /\ sr'.resp = "200"
          THEN /\ Len(sr'.log) = Len(sr.log) + 1
               /\ LET q == sr'.log[Len(sr'.log)]
                  IN /\ q.query_text = sr'.request.query
                     /\ q.results_count = Len(sr'.results)
                     /\ q.top_score = <<>> <=> Len(sr'.results) = 0
                     /\ Len(sr'.results) > 0
                        => q.top_score = <<similarity(sr'.results[1].embedding,
                                                      sr'.request.query)>>
          ELSE sr'.log = sr.log]_vars

(* ============================ re-indexing ============================== *)

\* what is stored of a chunk besides its primary key and its embedding
Content(rows) ==
    {[chunk_index |-> row.chunk_index, section |-> row.section,
      text |-> row.text] : row \in rows}

\* the chunk set one successful process-document call stores for a payload
Once(p) ==
    LET chunks == chunk_with_metadata(p.full_text, p.sections,
                                      SettingsChunkSize, SettingsChunkOverlap).chunks
    IN {[chunk_index |-> chunks[i].chunk_index, section |-> chunks[i].section,
         text |-> chunks[i].text] : i \in 1 .. Len(chunks)}

\* C22: after process-document was called for a document and, once that
\* call had been answered, called again with the same full_text and
\* sections, the stored chunks of the document are those of a single call:
\* the same count, chunk_index values, sections and texts.
C22_ReprocessIdempotent ==
    \A r \in 2 .. MaxRequests :
        (/\ req[r].pc = "idle" /\ req[r].resp = "200"
         /\ req[r - 1].resp = "200"
         /\ req[r - 1].document_id = req[r].document_id
         /\ req[r - 1].payload = req[r].payload
         /\ \A q \in r + 1 .. MaxRequests : req[q].resp = "none" /\ req[q].pc = "idle")
        => /\ Content(Stored(req[r].document_id)) = Once(req[r].payload)
           /\ Cardinality(Stored(req[r].document_id))
                = Cardinality(Once(req[r].payload))

C22_Witness ==
    /\ req[2].pc = "idle" /\ req[2].resp = "200" /\ req[1].resp = "200"
    /\ req[1].document_id = req[2].document_id
    /\ req[1].payload = req[2].payload
    /\ Cardinality(Stored(req[2].document_id)) >= 2

(* ========================== chunk coverage ============================= *)

\* character i of the text lies inside an occurrence of one of the chunks
Covered(text, chunks, i) ==
    \E k \in 1 .. Len(chunks), o \in 0 .. Len(text) :
        /\ o < i /\ i <= o + Len(chunks[k].text)
        /\ o + Len(chunks[k].text) <= Len(text)
        /\ SubSeq(text, o + 1, o + Len(chunks[k].text)) = chunks[k].text

\* the chunks of a call that has returned contain every non-whitespace
\* character of the text
ReturnedChunksCover ==
    ck.pc = "done"
    => \A i \in 1 .. Len(ck.text) :
          ck.text[i] \notin Whitespace => Covered(ck.text, ck.chunks, i)

\* C23: for any text, chunk_text returns chunks that contain every
\* non-whitespace character of the input: the call does not stay in its
\* loop, and the windows it cut overlap or abut.
C23_ChunksCoverText ==
    /\ ~(ck.pc = "loop" /\ ck.start < Len(ck.text) /\ ck.iter >= MaxIter(ck.text))
    /\ ReturnedChunksCover

(* ========================= section detection =========================== *)

\* the line is a recognised header of some section
IsHeader(line) == \E k \in 1 .. Len(SectionNames) : line \in section_patterns[k]

\* the non-blank lines between the header at line i and the next header
BodyOf(lines, i) ==
    LET next == {j \in i + 1 .. Len(lines) : IsHeader(lines[j])}
        last == IF next = {} THEN Len(lines) ELSE SetMin(next) - 1
        NonBlank(l) == l # ""
    IN  SelectSeq(SubSeq(lines, i + 1, last), NonBlank)

\* C24: when a recognised header of a section stands on its own line and is
\* followed by non-empty body text, extract_sections returns for that
\* section a non-null value that consists of the lines between that header
\* and the next header.
C24_HeaderedSectionReturned ==
    tp.pc = "done"
    => \A i \in 1 .. Len(tp.lines), k \in 1 .. Len(SectionNames) :
          (tp.lines[i] \in section_patterns[k] /\ BodyOf(tp.lines, i) # <<>>)
          => tp.sections[k] = <<BodyOf(tp.lines, i)>>

\* C25: when the text has no Abstract or Summary header, extract_sections
\* still returns a non-null abstract of at least 20 words: the paragraph
\* that stands between the title and author block and the Introduction
\* header.
C25_HeuristicAbstract ==
    (/\ tp.pc = "done"
     /\ \A i \in 1 .. Len(tp.lines) : tp.lines[i] \notin {"Abstract", "Summary"}
     /\ find_introduction_index(tp.lines) # -1)
    => LET IsParagraph(l) == l = ParagraphLine
           paragraph == SelectSeq(SubSeq(tp.lines, 1,
                                         find_introduction_index(tp.lines)),
                                  IsParagraph)
       IN  word_count(paragraph) >= 20
           => /\ ~IsNone(tp.sections[1])
              /\ word_count(tp.sections[1][1]) >= 20
              /\ tp.sections[1][1] = paragraph

(* ============================== gateway ================================ *)

\* C26: ServiceClient.delete_document returns True exactly when the
\* Document Processing Service deleted the document, and False when the
\* service answered with an error status or the request raised.
C26_GatewayDeleteResult ==
    (gw.pc = "done" /\ rm.pc = "done")
    => (gw.ret <=> (rm.resp = "204" /\ gw.status # "raised"))

\* C27: re-indexing is all-or-nothing: while a later process-document call
\* for an indexed document is between its delete and its insert, and after
\* it was answered 400 (no chunks) or 500 (embedding or insertion failed),
\* the chunk set stored by the previous call is still present.
C27_ReindexAllOrNothing ==
    \A r \in 2 .. MaxRequests :
        (/\ req[r - 1].pc = "idle" /\ req[r - 1].resp = "200"
         /\ req[r].document_id = req[r - 1].document_id
         /\ \/ req[r].pc \in {"insert", "hung"}
            \/ req[r].pc = "idle" /\ req[r].resp \in {"400", "500"}
         /\ \A q \in r + 1 .. MaxRequests : req[q].resp = "none" /\ req[q].pc = "idle")
        => Content(Stored(req[r].document_id)) = Once(req[r - 1].payload)

(* ========================== column detection =========================== *)

\* C28: the result is the left half's text followed by the right half's
\* text only when a gutter is found and both cropped halves yield text;
\* when no trough is found in the middle half of the page, or either half
\* yields no text, the result equals the whole-page extraction.
C28_ColumnsOrWholePage ==
    pg.pc = "done"
    => LET gap_idx == find_gap(pg.chars)
           left == extract_text(crop_left(pg.chars, gap_idx), 1)
           right == extract_text(crop_right(pg.chars, gap_idx), 1)
           whole == extract_text(pg.chars, 1)
           both == gap_idx # -1 /\ left # <<>> /\ right # <<>>
       IN  /\ pg.result # whole => both /\ pg.result = left \o << <<>> >> \o right
           /\ ~both => pg.result = whole

\* a gutter was found with no text to its left, and the right half's text
\* was returned
C28_Witness ==
    /\ pg.pc = "done" /\ ~pg.raised
    /\ find_gap(pg.chars) # -1
    /\ crop_left(pg.chars, find_gap(pg.chars)) = {}
    /\ Cardinality(pg.chars) = MaxChars
    /\ \E c, d \in pg.chars : c[1] # d[1]

(* ====================== cancel and upload races ======================== *)

C30_NoPendingJobWithoutTask ==
    \A j \in JobIds :
        (jobs[j].exists /\ jobs[j].status = "pending") => task[j].st # "none"
====
